---- MODULE Spec2Model ----
(***************************************************************************)
(* Local-Scrappy: the proxy pool (src/src/proxy.py), the partitioning of  *)
(* the work list and the worker threads (src/src/worker.py, src/src/db.py) *)
(* and the link discovery with its resume flows (src/src/scraper.py,       *)
(* src/src/main.py).                                                       *)
(*                                                                         *)
(* Proxies are the integers 1..NumProxies (opaque "host:port" strings in   *)
(* the source), None is 0.  Time is a discrete clock: time.time() is read  *)
(* once per pool call and only moves forward.                              *)
(***************************************************************************)
EXTENDS Integers, Sequences, FiniteSets, TLC

\* ---------------------------------------------------------------- bounds
NumProxies == 2
NumWorkers == 2
MaxTime == 2
Cooldown == 2
MaxLinks == 10
MaxDivWorkers == 4
MaxRunLinks == 2
MaxErrors == 2
MaxFaults == 2
MaxPages == 2
MaxPageLen == 2
MaxRetries == 4

\* while retry_count < 10
RetryBudget == 10

None == 0
Proxies == 1..NumProxies
Workers == 0..(NumWorkers - 1)
Items == {1, 2}

VARIABLES
  proxies,        \* the list ProxyPool was constructed from
  cooldown,       \* self.cooldown
  cold_proxies,   \* self.cold_proxies: list
  hot_proxies,    \* self.hot_proxies: dict in insertion order, <<[proxy, timestamp]>>
  assigned,       \* self.assigned: dict worker_id -> proxy
  now,            \* what time.time() returns
  call,           \* the last pool call: its arguments and its return value
  links,          \* divide_links: argument
  num_workers,    \* divide_links: argument
  chunks,         \* divide_links: return value
  dl_pc,          \* divide_links: "idle", "call", "done"
  use_proxies,    \* run_workers: proxy_pool is not None
  max_errors,     \* config["max_errors"]
  wk,             \* worker(): the locals of each worker thread
  counters,       \* worker.py: the module-level counters dict
  db,             \* businesses table: the source_url values stored
  attempted,      \* source_url values save_business was called with so far
  faults,         \* failures the environment has produced so far
  coord,          \* run_workers: where the calling thread is
  collected,      \* run_workers: futures as_completed has yielded
  results,        \* run_workers: return value
  cancel_at,      \* item index of each worker when the interrupt arrived
  pages,          \* the site: pages[p] is what result page p lists
  progress,       \* the links file that load_links_progress reads
  mn,             \* main.py: where the flow is, its links and start_page
  el,             \* extract_links_paginated: page and all_links
  fetched         \* result pages fetched so far, in order

runVars == <<use_proxies, max_errors, wk, counters, db, attempted, faults,
             coord, collected, results, cancel_at>>

discVars == <<pages, progress, mn, el, fetched>>

vars == <<proxies, cooldown, cold_proxies, hot_proxies, assigned, now, call,
          links, num_workers, chunks, dl_pc, runVars, discVars>>

\* ------------------------------------------------- Python lists and dicts
Range(s) == {s[i] : i \in DOMAIN s}

Min(a, b) == IF a < b THEN a ELSE b

\* list.remove(x): removes the first occurrence only
RECURSIVE ListRemove(_, _)
ListRemove(s, x) ==
  IF s = <<>> THEN <<>>
  ELSE IF Head(s) = x THEN Tail(s)
  ELSE <<Head(s)>> \o ListRemove(Tail(s), x)

\* keys of the hot dict
HotKeys(hot) == {hot[i].proxy : i \in DOMAIN hot}

\* hot[p]
HotSince(hot, p) == hot[CHOOSE i \in DOMAIN hot : hot[i].proxy = p].timestamp

\* hot[p] = t: a new key goes last, an existing key keeps its place
DictSet(hot, p, t) ==
  IF p \in HotKeys(hot)
  THEN [i \in DOMAIN hot |-> IF hot[i].proxy = p THEN [proxy |-> p, timestamp |-> t] ELSE hot[i]]
  ELSE Append(hot, [proxy |-> p, timestamp |-> t])

\* del hot[p]
DictDel(hot, p) == SelectSeq(hot, LAMBDA e : e.proxy # p)

\* the proxy lists a pool is built from: n distinct proxies, named by their place
\* in the list; the proxies n+1..NumProxies are known to callers but not in the pool
ProxyLists == {[i \in 1..n |-> i] : n \in 0..NumProxies}

\* ------------------------------------------------------------ ProxyPool
\* the pool object as one value
Pool ==
  [cold_proxies |-> cold_proxies, hot_proxies |-> hot_proxies,
   assigned |-> assigned, cooldown |-> cooldown]

\* ProxyPool.__init__
PoolInit(ps, cd) ==
  [cold_proxies |-> ps, hot_proxies |-> <<>>, assigned |-> <<>>, cooldown |-> cd]

\* _refresh_cooled_proxies, first loop: the hot entries whose cooldown is over
CooledAll(hot, t, cd) == hot

Cooled(hot, t, cd) == SelectSeq(hot, LAMBDA e : t - e.timestamp >= cd)

\* _refresh_cooled_proxies, second loop
RECURSIVE MoveCooled(_, _)
MoveCooled(pool, cooled) ==
  IF cooled = <<>> THEN pool
  ELSE LET p == Head(cooled).proxy
           cold == pool.cold_proxies
       IN MoveCooled(
            [pool EXCEPT !.hot_proxies = DictDel(@, p),
                         !.cold_proxies = IF p \in Range(cold) THEN cold ELSE Append(cold, p)],
            Tail(cooled))

NoRefresh(pool, t) == pool

refresh_cooled_proxies(pool, t) ==
  MoveCooled(pool, Cooled(pool.hot_proxies, t, pool.cooldown))

\* get_proxy: [pool |-> the pool afterwards, ret |-> the return value]
get_proxy_PopLast(pool, worker_id, t) ==
  LET r == refresh_cooled_proxies(pool, t)
      cold == r.cold_proxies
  IN IF worker_id \in DOMAIN r.assigned /\ r.assigned[worker_id] \in Range(cold)
     THEN [pool |-> r, ret |-> r.assigned[worker_id]]
     ELSE IF cold = <<>>
     THEN [pool |-> r, ret |-> None]
     ELSE [pool |-> [r EXCEPT !.cold_proxies = SubSeq(cold, 1, Len(cold) - 1),
                              !.assigned = (worker_id :> cold[Len(cold)]) @@ @],
           ret |-> cold[Len(cold)]]

get_proxy(pool, worker_id, t) ==
  LET r == refresh_cooled_proxies(pool, t)
      cold == r.cold_proxies
  IN IF worker_id \in DOMAIN r.assigned /\ r.assigned[worker_id] \in Range(cold)
     THEN [pool |-> r, ret |-> r.assigned[worker_id]]
     ELSE IF cold = <<>>
     THEN [pool |-> r, ret |-> None]
     ELSE [pool |-> [r EXCEPT !.cold_proxies = Tail(cold),
                              !.assigned = (worker_id :> Head(cold)) @@ @],
           ret |-> Head(cold)]

\* mark_hot: the pool afterwards
mark_hot_KeepCold(pool, proxy, worker_id, t) ==
  [pool EXCEPT
     !.hot_proxies = DictSet(@, proxy, t),
     !.assigned = IF worker_id \in DOMAIN @ /\ @[worker_id] = proxy
                  THEN [w \in (DOMAIN @) \ {worker_id} |-> @[w]]
                  ELSE @]

mark_hot_ClearAll(pool, proxy, worker_id, t) ==
  [pool EXCEPT
     !.hot_proxies = DictSet(@, proxy, t),
     !.cold_proxies = ListRemove(@, proxy),
     !.assigned = <<>>]

mark_hot(pool, proxy, worker_id, t) ==
  [pool EXCEPT
     !.hot_proxies = DictSet(@, proxy, t),
     !.cold_proxies = ListRemove(@, proxy),
     !.assigned = IF worker_id \in DOMAIN @ /\ @[worker_id] = proxy
                  THEN [w \in (DOMAIN @) \ {worker_id} |-> @[w]]
                  ELSE @]

\* status: [pool, cold, hot, total]
status(pool, t) ==
  LET r == refresh_cooled_proxies(pool, t)
  IN [pool |-> r, cold |-> Len(r.cold_proxies), hot |-> Len(r.hot_proxies),
      total |-> Len(r.cold_proxies) + Len(r.hot_proxies)]

\* has_available: [pool, ret]
has_available(pool, t) ==
  LET r == refresh_cooled_proxies(pool, t)
  IN [pool |-> r, ret |-> Len(r.cold_proxies) > 0]

\* -------------------------------------------------- the pool's callers
NoCall ==
  [op |-> "none", worker |-> 0, proxy |-> None, ret |-> None,
   cold |-> 0, hot |-> 0, total |-> 0, avail |-> FALSE]

SetPool(pool) ==
  /\ cold_proxies' = pool.cold_proxies
  /\ hot_proxies' = pool.hot_proxies
  /\ assigned' = pool.assigned
  /\ cooldown' = pool.cooldown

\* a thread calls pool.get_proxy(w); the whole call runs under self.lock
GetProxy(w) ==
  /\ LET r == get_proxy(Pool, w, now)
     IN /\ SetPool(r.pool)
        /\ call' = [NoCall EXCEPT !.op = "get_proxy", !.worker = w, !.ret = r.ret]
  /\ UNCHANGED <<proxies, now, links, num_workers, chunks, dl_pc, runVars, discVars>>

\* a thread calls pool.mark_hot(p, w)
MarkHot(p, w) ==
  /\ SetPool(mark_hot(Pool, p, w, now))
  /\ call' = [NoCall EXCEPT !.op = "mark_hot", !.worker = w, !.proxy = p]
  /\ UNCHANGED <<proxies, now, links, num_workers, chunks, dl_pc, runVars, discVars>>

\* a thread calls pool.status()
Status ==
  /\ LET r == status(Pool, now)
     IN /\ SetPool(r.pool)
        /\ call' = [NoCall EXCEPT !.op = "status",
                                  !.cold = r.cold, !.hot = r.hot, !.total = r.total]
  /\ UNCHANGED <<proxies, now, links, num_workers, chunks, dl_pc, runVars, discVars>>

\* a thread calls pool.has_available()
HasAvailable ==
  /\ LET r == has_available(Pool, now)
     IN /\ SetPool(r.pool)
        /\ call' = [NoCall EXCEPT !.op = "has_available", !.avail = r.ret]
  /\ UNCHANGED <<proxies, now, links, num_workers, chunks, dl_pc, runVars, discVars>>

\* time passes
Tick ==
  /\ now < MaxTime
  /\ now' = now + 1
  /\ UNCHANGED <<proxies, cooldown, cold_proxies, hot_proxies, assigned, call,
                 links, num_workers, chunks, dl_pc, runVars, discVars>>

\* --------------------------------------------- worker.py: state before a run
\* counters = {"inserted": 0, "skipped": 0, "errors": 0, "proxy_swaps": 0}
ZeroCounters == [inserted |-> 0, skipped |-> 0, errors |-> 0, proxy_swaps |-> 0]

\* the locals of worker() before its loop; pc "idle" is a thread not submitted.
\* Three fields are not locals of the code: open counts the sessions the
\* worker has opened and not closed, failed_proxy is the proxy of a failed
\* get_driver call until the worker's next successful get_proxy call, and
\* holds is the set of locks the thread holds (the with blocks it is in).
WorkerLocals ==
  [pc |-> "idle", i |-> 0, driver |-> FALSE, current_proxy |-> None,
   consecutive_errors |-> 0, retry_count |-> 0,
   local_inserted |-> 0, local_skipped |-> 0, local_errors |-> 0,
   local_swaps |-> 0, open |-> 0, failed_proxy |-> None, holds |-> {}]

RunIdle ==
  /\ use_proxies = FALSE
  /\ max_errors = 1
  /\ wk = [w \in Workers |-> WorkerLocals]
  /\ counters = ZeroCounters
  /\ db = {}
  /\ attempted = {}
  /\ faults = 0
  /\ coord = "idle"
  /\ collected = {}
  /\ results = ZeroCounters
  /\ cancel_at = [w \in Workers |-> 0]

\* ------------------------------------------ main.py: state before discovery
\* load_links_progress(db_name) returns None: there is no links file
NoProgress ==
  [exists |-> FALSE, links |-> <<>>, last_page |-> 0, total_pages |-> 0,
   completed |-> FALSE]

\* links = None; start_page = 1
MainLocals ==
  [pc |-> "idle", links_none |-> TRUE, links |-> <<>>, start_page |-> 1,
   called |-> FALSE]

\* all_links = []
ExtractLocals == [page |-> 0, all_links |-> <<>>, num_pages |-> 0]

DiscIdle ==
  /\ pages = <<>>
  /\ progress = NoProgress
  /\ mn = MainLocals
  /\ el = ExtractLocals
  /\ fetched = <<>>

\* ----------------------------------------------------------- divide_links
\* links[start:end] of Python: both ends are clipped to the list
Slice(list, start, end) == SubSeq(list, Min(start, Len(list)) + 1, Min(end, Len(list)))

\* end = start + chunk_size + (1 if i < remainder else 0)
SliceEnd_NoRemainder(start, chunk_size, remainder, i) == start + chunk_size

SliceEnd_OffByOne(start, chunk_size, remainder, i) ==
  start + chunk_size + (IF i <= remainder THEN 1 ELSE 0)

SliceEnd(start, chunk_size, remainder, i) ==
  start + chunk_size + (IF i < remainder THEN 1 ELSE 0)

\* for i in range(num_workers): ... chunks.append(links[start:end]); start = end
RECURSIVE DivideLoop(_, _, _, _, _, _, _)
DivideLoop(list, n, chunk_size, remainder, i, start, acc) ==
  IF i >= n THEN acc
  ELSE LET end == SliceEnd(start, chunk_size, remainder, i)
       IN DivideLoop(list, n, chunk_size, remainder, i + 1, end,
                     Append(acc, Slice(list, start, end)))

divide_links(list, n) ==
  DivideLoop(list, n, Len(list) \div n, Len(list) % n, 0, 0, <<>>)

\* run_workers: link_chunks = divide_links(links, num_workers)
DivideLinks ==
  /\ dl_pc = "call"
  /\ chunks' = divide_links(links, num_workers)
  /\ dl_pc' = "done"
  /\ UNCHANGED <<proxies, cooldown, cold_proxies, hot_proxies, assigned, now, call,
                 links, num_workers, runVars, discVars>>

LinkLists == UNION {[1..n -> Items] : n \in 0..MaxLinks}

InitDivide ==
  /\ links \in LinkLists
  /\ num_workers \in 1..MaxDivWorkers
  /\ chunks = <<>>
  /\ dl_pc = "call"
  /\ proxies = <<>>
  /\ cooldown = Cooldown
  /\ cold_proxies = <<>>
  /\ hot_proxies = <<>>
  /\ assigned = <<>>
  /\ now = 0
  /\ call = NoCall
  /\ RunIdle
  /\ DiscIdle

NextDivide == DivideLinks

SpecDivide == InitDivide /\ [][NextDivide]_vars

\* ------------------------------------------------------------- the pool run
Init ==
  /\ proxies \in ProxyLists
  /\ cooldown = Cooldown
  /\ cold_proxies = PoolInit(proxies, cooldown).cold_proxies
  /\ hot_proxies = PoolInit(proxies, cooldown).hot_proxies
  /\ assigned = PoolInit(proxies, cooldown).assigned
  /\ now = 0
  /\ call = NoCall
  /\ links = <<>>
  /\ num_workers = 1
  /\ chunks = <<>>
  /\ dl_pc = "idle"
  /\ RunIdle
  /\ DiscIdle

Next ==
  \/ \E w \in Workers : GetProxy(w)
  \/ \E p \in Proxies, w \in Workers : MarkHot(p, w)
  \/ Status
  \/ HasAvailable
  \/ Tick

Spec == Init /\ [][Next]_vars

\* ------------------------------------------------- worker.py: run_workers
\* everything a worker step does not touch besides wk and what it names
RunFrame == <<proxies, cooldown, links, num_workers, chunks, dl_pc, call,
              use_proxies, max_errors, coord, collected, results, cancel_at>>

PoolFrame == <<cold_proxies, hot_proxies, assigned>>

\* every worker is handed the whole list
ChunkOf_Whole(w) == links

\* the chunk run_workers handed to worker w: link_chunks[w]
ChunkOf(w) == chunks[w + 1]

\* url = links[i]
CurrentUrl(w) == ChunkOf(w)[wk[w].i + 1]

Dispatched == {w \in Workers : w < num_workers}

Finished == {w \in Dispatched : wk[w].pc \in {"done", "raised"}}

\* run_workers up to the end of the submit loop: reset_counters(),
\* divide_links(), one thread per chunk
RunStart ==
  /\ coord = "start"
  /\ counters' = ZeroCounters
  /\ chunks' = divide_links(links, num_workers)
  /\ dl_pc' = "done"
  /\ wk' = [w \in Workers |->
              IF w < num_workers THEN [WorkerLocals EXCEPT !.pc = "loop"] ELSE wk[w]]
  /\ coord' = "running"
  /\ UNCHANGED <<proxies, cooldown, links, num_workers, call, use_proxies, max_errors,
                 collected, results, cancel_at, PoolFrame, now, db, attempted, faults,
                 discVars>>

\* the loop head opens the swap branch only when there is no driver
LoopHead_NoThreshold(w) ==
  /\ wk[w].pc = "loop"
  /\ LET s == wk[w]
     IN wk' = [wk EXCEPT ![w] =
          IF s.i >= Len(ChunkOf(w)) THEN [s EXCEPT !.pc = "cleanup"]
          ELSE IF ~s.driver
            THEN IF use_proxies
                   THEN [s EXCEPT !.pc = "get_proxy", !.retry_count = 0]
                 ELSE [s EXCEPT !.pc = "start", !.current_proxy = None]
          ELSE [s EXCEPT !.pc = "fetch"]]
  /\ UNCHANGED <<RunFrame, PoolFrame, now, counters, db, attempted, faults, discVars>>

\* while i < len(links), and the test that opens the swap branch; an old
\* driver is closed here (driver.quit(), driver = None)
LoopHead(w) ==
  /\ wk[w].pc = "loop"
  /\ LET s == wk[w]
         closed == [s EXCEPT !.driver = FALSE,
                             !.open = IF s.driver THEN s.open - 1 ELSE s.open]
     IN wk' = [wk EXCEPT ![w] =
          IF s.i >= Len(ChunkOf(w)) THEN [s EXCEPT !.pc = "cleanup"]
          ELSE IF ~s.driver \/ (use_proxies /\ s.consecutive_errors >= max_errors)
            THEN IF use_proxies /\ s.current_proxy # None
                      /\ s.consecutive_errors >= max_errors
                   THEN [closed EXCEPT !.pc = "mark_hot"]
                 ELSE IF use_proxies
                   THEN [closed EXCEPT !.pc = "get_proxy", !.retry_count = 0]
                 ELSE [closed EXCEPT !.pc = "start", !.current_proxy = None]
          ELSE [s EXCEPT !.pc = "fetch"]]
  /\ UNCHANGED <<RunFrame, PoolFrame, now, counters, db, attempted, faults, discVars>>

\* proxy_pool.mark_hot(current_proxy, worker_id); local_swaps += 1
MarkHotSwap(w) ==
  /\ wk[w].pc = "mark_hot"
  /\ SetPool(mark_hot(Pool, wk[w].current_proxy, w, now))
  /\ wk' = [wk EXCEPT ![w].local_swaps = @ + 1, ![w].pc = "count_swap"]
  /\ UNCHANGED <<proxies, links, num_workers, chunks, dl_pc, call, use_proxies,
                 max_errors, coord, collected, results, cancel_at, now, counters, db,
                 attempted, faults, discVars>>

\* the swap is not counted
CountSwap_NotCounted(w) ==
  /\ wk[w].pc = "count_swap"
  /\ wk' = [wk EXCEPT ![w].pc = "get_proxy", ![w].retry_count = 0]
  /\ UNCHANGED <<RunFrame, PoolFrame, now, counters, db, attempted, faults, discVars>>

\* with counters_lock: counters["proxy_swaps"] += 1; then retry_count = 0
CountSwap(w) ==
  /\ wk[w].pc = "count_swap"
  /\ counters' = [counters EXCEPT !.proxy_swaps = @ + 1]
  /\ wk' = [wk EXCEPT ![w].pc = "get_proxy", ![w].retry_count = 0]
  /\ UNCHANGED <<RunFrame, PoolFrame, now, db, attempted, faults, discVars>>

\* the worker stops at the first get_proxy that returns no proxy
Acquire_NoWait(w) ==
  /\ wk[w].pc = "get_proxy"
  /\ LET r == get_proxy(Pool, w, now)
     IN /\ SetPool(r.pool)
        /\ wk' = [wk EXCEPT ![w].current_proxy = r.ret,
                            ![w].failed_proxy = IF r.ret # None THEN None ELSE @,
                            ![w].pc = IF r.ret # None THEN "start" ELSE "cleanup"]
  /\ UNCHANGED <<proxies, links, num_workers, chunks, dl_pc, call, use_proxies,
                 max_errors, coord, collected, results, cancel_at, now, counters, db,
                 attempted, faults, discVars>>

\* current_proxy = proxy_pool.get_proxy(worker_id); break, or time.sleep(30)
Acquire(w) ==
  /\ wk[w].pc = "get_proxy"
  /\ LET r == get_proxy(Pool, w, now)
     IN /\ SetPool(r.pool)
        /\ wk' = [wk EXCEPT ![w].current_proxy = r.ret,
                            ![w].failed_proxy = IF r.ret # None THEN None ELSE @,
                            ![w].pc = IF r.ret # None THEN "start" ELSE "sleep"]
  /\ UNCHANGED <<proxies, links, num_workers, chunks, dl_pc, call, use_proxies,
                 max_errors, coord, collected, results, cancel_at, now, counters, db,
                 attempted, faults, discVars>>

\* the retry loop without its bound
AfterSleep_NoBudget(s) == [s EXCEPT !.retry_count = @ + 1, !.pc = "get_proxy"]

\* time.sleep(30) returns: retry_count += 1; while retry_count < 10;
\* after the loop, if not current_proxy: break
AfterSleep(s) ==
  [s EXCEPT !.retry_count = @ + 1,
            !.pc = IF s.retry_count + 1 < RetryBudget THEN "get_proxy" ELSE "cleanup"]

\* the new session keeps the consecutive-error count of the old one
StartBrowser_KeepErrors(w) ==
  /\ wk[w].pc = "start"
  /\ wk' = [wk EXCEPT ![w].driver = TRUE, ![w].open = @ + 1, ![w].pc = "fetch"]
  /\ UNCHANGED <<RunFrame, PoolFrame, now, counters, db, attempted, faults, discVars>>

\* driver = get_driver(current_proxy); consecutive_errors = 0
StartBrowser(w) ==
  /\ wk[w].pc = "start"
  /\ wk' = [wk EXCEPT ![w].driver = TRUE, ![w].open = @ + 1,
                      ![w].consecutive_errors = 0, ![w].pc = "fetch"]
  /\ UNCHANGED <<RunFrame, PoolFrame, now, counters, db, attempted, faults, discVars>>

\* the proxy of a failed start is dropped without being marked hot
StartBrowserFails_NotHot(w) ==
  /\ wk[w].pc = "start"
  /\ faults < MaxFaults
  /\ faults' = faults + 1
  /\ wk' = [wk EXCEPT ![w].current_proxy = None,
                      ![w].failed_proxy = wk[w].current_proxy, ![w].pc = "loop"]
  /\ UNCHANGED <<proxies, cooldown, links, num_workers, chunks, dl_pc, call,
                 use_proxies, max_errors, coord, collected, results, cancel_at,
                 PoolFrame, now, counters, db, attempted, discVars>>

\* get_driver raises: mark_hot(current_proxy) if there is one,
\* current_proxy = None, continue
StartBrowserFails(w) ==
  /\ wk[w].pc = "start"
  /\ faults < MaxFaults
  /\ faults' = faults + 1
  /\ IF use_proxies /\ wk[w].current_proxy # None
       THEN SetPool(mark_hot(Pool, wk[w].current_proxy, w, now))
       ELSE UNCHANGED <<PoolFrame, cooldown>>
  /\ wk' = [wk EXCEPT ![w].current_proxy = None,
                      ![w].failed_proxy = wk[w].current_proxy, ![w].pc = "loop"]
  /\ UNCHANGED <<proxies, links, num_workers, chunks, dl_pc, call, use_proxies,
                 max_errors, coord, collected, results, cancel_at, now, counters, db,
                 attempted, discVars>>

\* business = extract_all_data(driver, url) returns
Fetch(w) ==
  /\ wk[w].pc = "fetch"
  /\ wk' = [wk EXCEPT ![w].pc = "save"]
  /\ UNCHANGED <<RunFrame, PoolFrame, now, counters, db, attempted, faults, discVars>>

\* extract_all_data raises WebDriverException or TimeoutException:
\* consecutive_errors += 1; local_errors += 1
FetchNetworkError(w) ==
  /\ wk[w].pc = "fetch"
  /\ faults < MaxFaults
  /\ faults' = faults + 1
  /\ wk' = [wk EXCEPT ![w].consecutive_errors = @ + 1, ![w].local_errors = @ + 1,
                      ![w].pc = "count_neterr"]
  /\ UNCHANGED <<RunFrame, PoolFrame, now, counters, db, attempted, discVars>>

\* extract_all_data raises any other Exception: local_errors += 1
FetchOtherError(w) ==
  /\ wk[w].pc = "fetch"
  /\ faults < MaxFaults
  /\ faults' = faults + 1
  /\ wk' = [wk EXCEPT ![w].local_errors = @ + 1, ![w].pc = "count_err"]
  /\ UNCHANGED <<RunFrame, PoolFrame, now, counters, db, attempted, discVars>>

\* an INSERT without the UNIQUE constraint
save_business_AlwaysInserted(stored, url) ==
  [stored |-> stored \cup {url}, inserted |-> TRUE]

\* db.py save_business: INSERT OR IGNORE on the UNIQUE source_url, under
\* db_lock; inserted = cursor.rowcount > 0
save_business(stored, url) ==
  [stored |-> stored \cup {url}, inserted |-> url \notin stored]

\* if save_business(db_path, business): local_inserted += 1 else local_skipped += 1
Save(w) ==
  /\ wk[w].pc = "save"
  /\ LET r == save_business(db, CurrentUrl(w))
     IN /\ db' = r.stored
        /\ wk' = [wk EXCEPT
                    ![w].local_inserted = IF r.inserted THEN @ + 1 ELSE @,
                    ![w].local_skipped = IF r.inserted THEN @ ELSE @ + 1,
                    ![w].pc = IF r.inserted THEN "count_inserted" ELSE "count_skipped"]
  /\ attempted' = attempted \cup {CurrentUrl(w)}
  /\ UNCHANGED <<RunFrame, PoolFrame, now, counters, faults, discVars>>

\* save_business: except sqlite3.Error: inserted = False
SaveDbError(w) ==
  /\ wk[w].pc = "save"
  /\ faults < MaxFaults
  /\ faults' = faults + 1
  /\ wk' = [wk EXCEPT ![w].local_skipped = @ + 1, ![w].pc = "count_skipped"]
  /\ attempted' = attempted \cup {CurrentUrl(w)}
  /\ UNCHANGED <<RunFrame, PoolFrame, now, counters, db, discVars>>

\* a stored record does not reset the consecutive-error count
CountInserted_KeepErrors(w) ==
  /\ wk[w].pc = "count_inserted"
  /\ counters' = [counters EXCEPT !.inserted = @ + 1]
  /\ wk' = [wk EXCEPT ![w].i = @ + 1, ![w].pc = "loop"]
  /\ UNCHANGED <<RunFrame, PoolFrame, now, db, attempted, faults, discVars>>

\* with counters_lock: counters["inserted"] += 1; consecutive_errors = 0; i += 1
CountInserted(w) ==
  /\ wk[w].pc = "count_inserted"
  /\ counters' = [counters EXCEPT !.inserted = @ + 1]
  /\ wk' = [wk EXCEPT ![w].consecutive_errors = 0, ![w].i = @ + 1, ![w].pc = "loop"]
  /\ UNCHANGED <<RunFrame, PoolFrame, now, db, attempted, faults, discVars>>

\* the counter is written from a value read before the other workers'
\* updates: the worker's own count
CountSkipped_StaleWrite(w) ==
  /\ wk[w].pc = "count_skipped"
  /\ counters' = [counters EXCEPT !.skipped = wk[w].local_skipped]
  /\ wk' = [wk EXCEPT ![w].consecutive_errors = 0, ![w].i = @ + 1, ![w].pc = "loop"]
  /\ UNCHANGED <<RunFrame, PoolFrame, now, db, attempted, faults, discVars>>

\* with counters_lock: counters["skipped"] += 1; consecutive_errors = 0; i += 1
CountSkipped(w) ==
  /\ wk[w].pc = "count_skipped"
  /\ counters' = [counters EXCEPT !.skipped = @ + 1]
  /\ wk' = [wk EXCEPT ![w].consecutive_errors = 0, ![w].i = @ + 1, ![w].pc = "loop"]
  /\ UNCHANGED <<RunFrame, PoolFrame, now, db, attempted, faults, discVars>>

\* the item is given up at max_errors with a pool as well
CountNetworkError_SkipAlways(w) ==
  /\ wk[w].pc = "count_neterr"
  /\ counters' = [counters EXCEPT !.errors = @ + 1]
  /\ wk' = [wk EXCEPT ![w] =
              IF @.consecutive_errors >= max_errors
                THEN [@ EXCEPT !.consecutive_errors = 0, !.i = @ + 1, !.pc = "loop"]
                ELSE [@ EXCEPT !.pc = "loop"]]
  /\ UNCHANGED <<RunFrame, PoolFrame, now, db, attempted, faults, discVars>>

\* the item is never given up
CountNetworkError_NeverSkip(w) ==
  /\ wk[w].pc = "count_neterr"
  /\ counters' = [counters EXCEPT !.errors = @ + 1]
  /\ wk' = [wk EXCEPT ![w].pc = "loop"]
  /\ UNCHANGED <<RunFrame, PoolFrame, now, db, attempted, faults, discVars>>

\* network error handler: counters["errors"] += 1; without a pool, once
\* consecutive_errors >= max_errors: consecutive_errors = 0; i += 1
CountNetworkError(w) ==
  /\ wk[w].pc = "count_neterr"
  /\ counters' = [counters EXCEPT !.errors = @ + 1]
  /\ wk' = [wk EXCEPT ![w] =
              IF ~use_proxies /\ @.consecutive_errors >= max_errors
                THEN [@ EXCEPT !.consecutive_errors = 0, !.i = @ + 1, !.pc = "loop"]
                ELSE [@ EXCEPT !.pc = "loop"]]
  /\ UNCHANGED <<RunFrame, PoolFrame, now, db, attempted, faults, discVars>>

\* the item is left pending after an unexpected exception
CountOtherError_Retry(w) ==
  /\ wk[w].pc = "count_err"
  /\ counters' = [counters EXCEPT !.errors = @ + 1]
  /\ wk' = [wk EXCEPT ![w].pc = "loop"]
  /\ UNCHANGED <<RunFrame, PoolFrame, now, db, attempted, faults, discVars>>

\* except Exception: counters["errors"] += 1; i += 1
CountOtherError(w) ==
  /\ wk[w].pc = "count_err"
  /\ counters' = [counters EXCEPT !.errors = @ + 1]
  /\ wk' = [wk EXCEPT ![w].i = @ + 1, ![w].pc = "loop"]
  /\ UNCHANGED <<RunFrame, PoolFrame, now, db, attempted, faults, discVars>>

\* an exception leaves worker(): the handlers' own statements after the
\* counter update (the print calls) are not inside any try
WorkerRaises(w) ==
  /\ wk[w].pc \in {"count_neterr", "count_err"}
  /\ faults < MaxFaults
  /\ faults' = faults + 1
  /\ counters' = [counters EXCEPT !.errors = @ + 1]
  /\ wk' = [wk EXCEPT ![w].pc = "raised"]
  /\ UNCHANGED <<RunFrame, PoolFrame, now, db, attempted, discVars>>

\* after the loop: if driver: driver.quit(); return
Cleanup(w) ==
  /\ wk[w].pc = "cleanup"
  /\ wk' = [wk EXCEPT ![w].driver = FALSE,
                      ![w].open = IF wk[w].driver THEN @ - 1 ELSE @,
                      ![w].pc = "done"]
  /\ UNCHANGED <<RunFrame, PoolFrame, now, counters, db, attempted, faults, discVars>>

\* the loop over as_completed ends as soon as some future is done
Return_FirstCompleted ==
  /\ coord = "running"
  /\ Finished # {}
  /\ collected' = Finished
  /\ results' = counters
  /\ coord' = "returned"
  /\ UNCHANGED <<proxies, cooldown, links, num_workers, chunks, dl_pc, call,
                 use_proxies, max_errors, cancel_at, PoolFrame, now,
                 wk, counters, db, attempted, faults, discVars>>

\* for future in as_completed(futures): future.result(), except Exception;
\* the loop ends when every future is done, the with block ends;
\* results = get_counters(); return results
Return ==
  /\ coord = "running"
  /\ Finished = Dispatched
  /\ collected' = Dispatched
  /\ results' = counters
  /\ coord' = "returned"
  /\ UNCHANGED <<proxies, cooldown, links, num_workers, chunks, dl_pc, call,
                 use_proxies, max_errors, cancel_at, PoolFrame, now,
                 wk, counters, db, attempted, faults, discVars>>

\* KeyboardInterrupt in the calling thread while it waits in as_completed:
\* except Exception does not catch it, the with block's exit begins
Interrupt ==
  /\ coord = "running"
  /\ coord' = "interrupted"
  /\ cancel_at' = [w \in Workers |-> wk[w].i]
  /\ UNCHANGED <<proxies, cooldown, links, num_workers, chunks, dl_pc, call,
                 use_proxies, max_errors, collected, results, PoolFrame, now,
                 wk, counters, db, attempted, faults, discVars>>

\* ThreadPoolExecutor.__exit__: shutdown(wait=True) joins every thread, then
\* the KeyboardInterrupt leaves run_workers
Propagate ==
  /\ coord = "interrupted"
  /\ Finished = Dispatched
  /\ coord' = "aborted"
  /\ UNCHANGED <<proxies, cooldown, links, num_workers, chunks, dl_pc, call,
                 use_proxies, max_errors, collected, results, cancel_at, PoolFrame,
                 now, wk, counters, db, attempted, faults, discVars>>

\* the workers in time.sleep(30)
Sleeping == {w \in Dispatched : wk[w].pc = "sleep"}

\* time passes, in units of the 30 s a worker sleeps: the sleeping workers
\* wake up.  Only the pool and the sleeping workers read the clock, so the
\* clock is moved only while a proxy is hot or a worker sleeps; past MaxTime
\* it moves only because a sleeping worker needs it.
RunTick ==
  /\ coord \in {"running", "interrupted"}
  /\ \/ now < MaxTime /\ hot_proxies # <<>>
     \/ Sleeping # {}
  /\ now' = now + 1
  /\ wk' = [w \in Workers |-> IF w \in Sleeping THEN AfterSleep(wk[w]) ELSE wk[w]]
  /\ UNCHANGED <<RunFrame, PoolFrame, counters, db, attempted, faults, discVars>>

\* the lists of at most MaxRunLinks links, one for each pattern of repeated
\* links: a link that occurs for the first time is the next unused item
RunLinks ==
  {l \in UNION {[1..n -> 1..MaxRunLinks] : n \in 0..MaxRunLinks} :
     \A k \in DOMAIN l : \A v \in 1..(l[k] - 1) : \E j \in 1..(k - 1) : l[j] = v}

\* main.py: run_workers(links, db_path, proxy_pool, config) is about to be
\* called; proxy_pool is None or ProxyPool(load_proxies(), cooldown)
InitRun ==
  /\ links \in RunLinks
  /\ num_workers \in 1..NumWorkers
  /\ use_proxies \in BOOLEAN
  /\ proxies \in (IF use_proxies THEN ProxyLists ELSE {<<>>})
  /\ max_errors \in 1..MaxErrors
  /\ cooldown = Cooldown
  /\ cold_proxies = PoolInit(proxies, cooldown).cold_proxies
  /\ hot_proxies = PoolInit(proxies, cooldown).hot_proxies
  /\ assigned = PoolInit(proxies, cooldown).assigned
  /\ now = 0
  /\ call = NoCall
  /\ chunks = <<>>
  /\ dl_pc = "call"
  /\ wk = [w \in Workers |-> WorkerLocals]
  /\ counters = ZeroCounters
  /\ db = {}
  /\ attempted = {}
  /\ faults = 0
  /\ coord = "start"
  /\ collected = {}
  /\ results = ZeroCounters
  /\ cancel_at = [w \in Workers |-> 0]
  /\ DiscIdle

WorkerStep(w) ==
  \/ LoopHead(w)
  \/ MarkHotSwap(w)
  \/ CountSwap(w)
  \/ Acquire(w)
  \/ StartBrowser(w)
  \/ StartBrowserFails(w)
  \/ Fetch(w)
  \/ FetchNetworkError(w)
  \/ FetchOtherError(w)
  \/ Save(w)
  \/ SaveDbError(w)
  \/ CountInserted(w)
  \/ CountSkipped(w)
  \/ CountNetworkError(w)
  \/ CountOtherError(w)
  \/ WorkerRaises(w)
  \/ Cleanup(w)

NextRun ==
  \/ RunStart
  \/ \E w \in Workers : WorkerStep(w)
  \/ Return
  \/ RunTick

SpecRun == InitRun /\ [][NextRun]_vars

\* the same run, with a KeyboardInterrupt that may arrive while it waits
NextCancel ==
  \/ NextRun
  \/ Interrupt
  \/ Propagate

SpecCancel == InitRun /\ [][NextCancel]_vars

\* the run with a proxy pool on a site where extract_all_data raises a
\* WebDriverException or TimeoutException at every call; one worker is
\* followed through its first MaxRetries failures
FetchFailsAgain(w) ==
  /\ wk[w].pc = "fetch"
  /\ wk[w].local_errors < MaxRetries
  /\ wk' = [wk EXCEPT ![w].consecutive_errors = @ + 1, ![w].local_errors = @ + 1,
                      ![w].pc = "count_neterr"]
  /\ UNCHANGED <<RunFrame, PoolFrame, now, counters, db, attempted, faults, discVars>>

InitRetry == InitRun /\ use_proxies /\ num_workers = 1

RetryStep(w) ==
  \/ LoopHead(w)
  \/ MarkHotSwap(w)
  \/ CountSwap(w)
  \/ Acquire(w)
  \/ StartBrowser(w)
  \/ FetchFailsAgain(w)
  \/ CountNetworkError(w)
  \/ Cleanup(w)

NextRetry ==
  \/ RunStart
  \/ \E w \in Workers : RetryStep(w)
  \/ Return
  \/ RunTick

SpecRetry == InitRetry /\ [][NextRetry]_vars

\* ------------------------------------------------------------ the locks
\* the run with its three locks: self.lock of the pool (proxy.py:45),
\* counters_lock (worker.py:21) and db_lock (db.py:10).  In the other
\* specifications a with block is one step; here a worker enters the block
\* in a step of its own, runs the block's body, and leaves it.
Locks == {"pool", "counters", "db"}

\* the lock of the with block that the statement at worker w's program
\* point runs in: get_proxy and mark_hot run under self.lock, the updates of
\* the shared counters under counters_lock, save_business under db_lock
LockOf(w) ==
  LET pc == wk[w].pc
  IN IF pc \in {"mark_hot", "get_proxy"} THEN "pool"
     ELSE IF pc = "start_failed" /\ use_proxies /\ wk[w].current_proxy # None
       THEN "pool"
     ELSE IF pc \in {"count_swap", "count_inserted", "count_skipped",
                     "count_neterr", "count_err"} THEN "counters"
     ELSE IF pc = "save" THEN "db"
     ELSE "none"

\* threading.Lock: no thread holds it
Free(l) == \A v \in Workers : l \notin wk[v].holds

\* a with block that is left at some later time
Released_Late(w) == TRUE

\* the end of a with block comes before the statement that follows it:
\* worker w holds no lock but, at most, the one of the block it is in
Released(w) == wk[w].holds \subseteq {LockOf(w)}

\* with lock: the thread waits until the lock is free and takes it
Enter(w) ==
  /\ LockOf(w) # "none"
  /\ LockOf(w) \notin wk[w].holds
  /\ Released(w)
  /\ Free(LockOf(w))
  /\ wk' = [wk EXCEPT ![w].holds = @ \cup {LockOf(w)}]
  /\ UNCHANGED <<RunFrame, PoolFrame, now, counters, db, attempted, faults, discVars>>

\* the end of a with block whose body has run: the lock is released
Exit(w) ==
  /\ \E l \in wk[w].holds :
       /\ l # LockOf(w)
       /\ wk' = [wk EXCEPT ![w].holds = @ \ {l}]
  /\ UNCHANGED <<RunFrame, PoolFrame, now, counters, db, attempted, faults, discVars>>

\* get_driver raises: the except handler is entered
StartRaises(w) ==
  /\ wk[w].pc = "start"
  /\ faults < MaxFaults
  /\ faults' = faults + 1
  /\ wk' = [wk EXCEPT ![w].pc = "start_failed"]
  /\ UNCHANGED <<RunFrame, PoolFrame, now, counters, db, attempted, discVars>>

\* the handler: mark_hot(current_proxy) if there is one,
\* current_proxy = None, continue
MarkHotFailedStart(w) ==
  /\ wk[w].pc = "start_failed"
  /\ IF use_proxies /\ wk[w].current_proxy # None
       THEN SetPool(mark_hot(Pool, wk[w].current_proxy, w, now))
       ELSE UNCHANGED <<PoolFrame, cooldown>>
  /\ wk' = [wk EXCEPT ![w].current_proxy = None,
                      ![w].failed_proxy = wk[w].current_proxy, ![w].pc = "loop"]
  /\ UNCHANGED <<proxies, links, num_workers, chunks, dl_pc, call, use_proxies,
                 max_errors, coord, collected, results, cancel_at, now, counters, db,
                 attempted, faults, discVars>>

\* a statement of worker(): the body of a with block when the worker is in
\* it, any other statement when the worker is in none
Statement(w) ==
  /\ Released(w)
  /\ LockOf(w) = "none" \/ LockOf(w) \in wk[w].holds
  /\ \/ LoopHead(w)
     \/ MarkHotSwap(w)
     \/ CountSwap(w)
     \/ Acquire(w)
     \/ StartBrowser(w)
     \/ StartRaises(w)
     \/ MarkHotFailedStart(w)
     \/ Fetch(w)
     \/ FetchNetworkError(w)
     \/ FetchOtherError(w)
     \/ Save(w)
     \/ SaveDbError(w)
     \/ CountInserted(w)
     \/ CountSkipped(w)
     \/ CountNetworkError(w)
     \/ CountOtherError(w)
     \/ WorkerRaises(w)
     \/ Cleanup(w)

\* the workers in time.sleep(30): they have left get_proxy's with block
Asleep == {w \in Sleeping : Released(w)}

\* time passes, as in RunTick: the workers that sleep wake up
LockTick ==
  /\ coord = "running"
  /\ \/ now < MaxTime /\ hot_proxies # <<>>
     \/ Asleep # {}
  /\ now' = now + 1
  /\ wk' = [w \in Workers |-> IF w \in Asleep THEN AfterSleep(wk[w]) ELSE wk[w]]
  /\ UNCHANGED <<RunFrame, PoolFrame, counters, db, attempted, faults, discVars>>

LockStep(w) ==
  \/ Enter(w)
  \/ Statement(w)
  \/ Exit(w)

NextLocks ==
  \/ RunStart
  \/ \E w \in Workers : LockStep(w)
  \/ Return
  \/ LockTick

SpecLocks == InitRun /\ [][NextLocks]_vars

\* the run without a proxy pool, where get_driver may raise at every call:
\* except Exception: current_proxy = None; continue (nothing is counted and
\* nothing is waited for)
StartFailsAgain(w) ==
  /\ wk[w].pc = "start"
  /\ ~use_proxies
  /\ wk' = [wk EXCEPT ![w].current_proxy = None, ![w].pc = "loop"]
  /\ UNCHANGED <<RunFrame, PoolFrame, now, counters, db, attempted, faults, discVars>>

InitDirect == InitRun /\ ~use_proxies

DirectStep(w) ==
  \/ LoopHead(w)
  \/ StartBrowser(w)
  \/ StartFailsAgain(w)
  \/ Fetch(w)
  \/ FetchNetworkError(w)
  \/ FetchOtherError(w)
  \/ Save(w)
  \/ SaveDbError(w)
  \/ CountInserted(w)
  \/ CountSkipped(w)
  \/ CountNetworkError(w)
  \/ CountOtherError(w)
  \/ WorkerRaises(w)
  \/ Cleanup(w)

NextDirect ==
  \/ RunStart
  \/ \E w \in Workers : DirectStep(w)
  \/ Return

\* every thread that can run does run: the worker threads and the caller
\* are scheduled by the operating system; which outcome a call has is not
\* a matter of scheduling and is left open
SpecDirect ==
  /\ InitDirect
  /\ [][NextDirect]_vars
  /\ \A w \in Workers : WF_vars(DirectStep(w))
  /\ WF_vars(RunStart)
  /\ WF_vars(Return)

\* ------------------------------------- scraper.py: extract_links_paginated
\* new_links = [link for link in page_links if link not in all_links]
new_links(page_links, all_links) ==
  SelectSeq(page_links, LAMBDA link : link \notin Range(all_links))

\* all_links.extend(new_links)
ExtendWithPage(all_links, page_links) == all_links \o new_links(page_links, all_links)

\* all_links after the loop has run for pages 1..k of the site
RECURSIVE LinksThrough(_, _)
LinksThrough(site, k) ==
  IF k = 0 THEN <<>> ELSE ExtendWithPage(LinksThrough(site, k - 1), site[k])

\* the links file of a discovery over the site that got as far as page k
ProgressAt(site, k) ==
  [exists |-> TRUE, links |-> LinksThrough(site, k), last_page |-> k,
   total_pages |-> Len(site), completed |-> (k = Len(site))]

\* load_links_progress(db_name): the stored progress, None without a file
load_links_progress(file) == file

\* delete_links_file(db_name)
delete_links_file(file) == NoProgress

DiscFrame == <<proxies, cooldown, cold_proxies, hot_proxies, assigned, now, call,
               links, num_workers, chunks, dl_pc, runVars, pages>>

\* the test without the completed flag
NeedsExtraction_IgnoreCompleted(links_none, existing_progress, start_page) ==
  links_none \/ (existing_progress.exists /\ start_page > 1)

\* Step 4 of run_scrape_mode: links is None or (existing_progress and not
\* existing_progress['completed'] and start_page > 1)
NeedsExtraction(links_none, existing_progress, start_page) ==
  links_none \/ (existing_progress.exists /\ ~existing_progress.completed
                   /\ start_page > 1)

\* extract_links_paginated(driver, base_url, num_pages, delay=0.5) called as
\* main.py calls it, with the keywords db_name, start_page and
\* existing_links: the function has no such parameters, the call raises
\* TypeError before the body runs
CallWithKeywords(m) == [m EXCEPT !.pc = "TypeError", !.called = TRUE]

\* run_scrape_mode up to run_workers: the choice among "use existing
\* links" (1), "resume from last page" (2), "start fresh" (3), then Step 4
run_scrape_mode(choice, proceed) ==
  /\ mn.pc = "menu"
  /\ LET existing_progress == load_links_progress(progress)
         m1 == IF ~existing_progress.exists THEN mn
               ELSE IF choice = 1
                 THEN [mn EXCEPT !.links_none = FALSE, !.links = existing_progress.links]
               ELSE IF choice = 2
                 THEN [mn EXCEPT !.links_none = FALSE, !.links = existing_progress.links,
                                 !.start_page = existing_progress.last_page + 1]
               ELSE mn
         file == IF existing_progress.exists /\ choice = 3
                   THEN delete_links_file(progress) ELSE progress
     IN /\ progress' = file
        /\ mn' = IF ~proceed THEN [m1 EXCEPT !.pc = "returned"]
                 ELSE IF NeedsExtraction(m1.links_none, existing_progress, m1.start_page)
                   THEN CallWithKeywords(m1)
                 ELSE IF m1.links = <<>> THEN [m1 EXCEPT !.pc = "returned"]
                 ELSE [m1 EXCEPT !.pc = "run_workers"]
  /\ UNCHANGED <<DiscFrame, el, fetched>>

\* run_resume_mode up to run_workers: the action among "resume extraction"
\* (1), "go to scraping" (2), "delete link file" (3), "back" (0)
run_resume_mode(action, proceed) ==
  /\ mn.pc = "menu"
  /\ LET file == load_links_progress(progress)
         scraping == [mn EXCEPT !.links_none = FALSE, !.links = file.links,
                                !.pc = "run_workers"]
     IN /\ mn' = IF ~file.exists \/ action = 0 THEN [mn EXCEPT !.pc = "returned"]
                 ELSE IF action = 1
                   THEN IF file.completed
                          THEN IF proceed THEN scraping ELSE [mn EXCEPT !.pc = "returned"]
                          ELSE CallWithKeywords([mn EXCEPT !.start_page = file.last_page + 1])
                 ELSE IF action = 2 THEN scraping
                 ELSE [mn EXCEPT !.pc = "returned"]
        /\ progress' = IF file.exists /\ action = 3 /\ proceed
                         THEN delete_links_file(progress) ELSE progress
  /\ UNCHANGED <<DiscFrame, el, fetched>>

\* run_workers returns and the mode function runs to its end
ScrapingDone ==
  /\ mn.pc = "run_workers"
  /\ mn' = [mn EXCEPT !.pc = "returned"]
  /\ UNCHANGED <<DiscFrame, progress, el, fetched>>

\* the program is started again
StartAgain ==
  /\ mn.pc \in {"returned", "TypeError", "KeyboardInterrupt"}
  /\ mn' = [MainLocals EXCEPT !.pc = "menu"]
  /\ el' = ExtractLocals
  /\ fetched' = <<>>
  /\ UNCHANGED <<DiscFrame, progress>>

\* extract_links_paginated(driver, base_url, num_pages) called with the
\* parameters it has: all_links = []; for page in range(1, num_pages + 1)
CallExtract ==
  /\ mn.pc = "menu"
  /\ mn' = [mn EXCEPT !.pc = "extract"]
  /\ el' = [page |-> 1, all_links |-> <<>>, num_pages |-> Len(pages)]
  /\ UNCHANGED <<DiscFrame, progress, fetched>>

\* one turn of the loop: page_links = extract_links_from_page(driver, url);
\* all_links.extend(new_links); after the last page, return all_links
ExtractPage ==
  /\ mn.pc = "extract"
  /\ el.page <= el.num_pages
  /\ fetched' = Append(fetched, el.page)
  /\ LET all == ExtendWithPage(el.all_links, pages[el.page])
     IN /\ el' = [el EXCEPT !.all_links = all, !.page = @ + 1]
        /\ mn' = IF el.page = el.num_pages
                   THEN [mn EXCEPT !.pc = "returned", !.links_none = FALSE, !.links = all]
                   ELSE mn
  /\ UNCHANGED <<DiscFrame, progress>>

\* KeyboardInterrupt while the loop runs: the call ends without a value
ExtractInterrupted ==
  /\ mn.pc = "extract"
  /\ mn' = [mn EXCEPT !.pc = "KeyboardInterrupt"]
  /\ UNCHANGED <<DiscFrame, progress, el, fetched>>

PageLists == UNION {[1..n -> Items] : n \in 0..MaxPageLen}

Sites == UNION {[1..n -> PageLists] : n \in 1..MaxPages}

\* a site, and no links file or the links file of a discovery over this
\* site that stopped after some page
InitDisc ==
  /\ pages \in Sites
  /\ progress \in {NoProgress} \cup {ProgressAt(pages, k) : k \in 1..Len(pages)}
  /\ mn = [MainLocals EXCEPT !.pc = "menu"]
  /\ el = ExtractLocals
  /\ fetched = <<>>
  /\ proxies = <<>>
  /\ cooldown = Cooldown
  /\ cold_proxies = <<>>
  /\ hot_proxies = <<>>
  /\ assigned = <<>>
  /\ now = 0
  /\ call = NoCall
  /\ links = <<>>
  /\ num_workers = 1
  /\ chunks = <<>>
  /\ dl_pc = "idle"
  /\ RunIdle

NextDisc ==
  \/ \E choice \in 1..3, proceed \in BOOLEAN : run_scrape_mode(choice, proceed)
  \/ \E action \in 0..3, proceed \in BOOLEAN : run_resume_mode(action, proceed)
  \/ ScrapingDone
  \/ StartAgain
  \/ CallExtract
  \/ ExtractPage
  \/ ExtractInterrupted

SpecDisc == InitDisc /\ [][NextDisc]_vars

\* ------------------------------------------------------------ properties
\* In a step of Spec the clock stands still exactly when the step is a pool
\* call; call' is then that call's record.
CallStep(op) == now' = now /\ call'.op = op

ReconcilingStep == now' = now /\ call'.op \in {"get_proxy", "status", "has_available"}

RECURSIVE Concat(_)
Concat(ss) == IF ss = <<>> THEN <<>> ELSE Head(ss) \o Concat(Tail(ss))

\* C1 (assignment stability): when get_proxy(w) has returned a proxy p and the
\* next pool call is get_proxy(w) again (so p has not been marked hot in
\* between), that call returns the same p and takes no proxy out of cold.
C1_AssignmentStable ==
  [][(CallStep("get_proxy") /\ call.op = "get_proxy" /\ call.ret # None
        /\ call'.worker = call.worker)
       => (call'.ret = call.ret /\ Range(cold_proxies) \subseteq Range(cold_proxies'))]_vars

C3_ColdOrHot ==
  /\ \A p \in Range(proxies) :
       (p \in Range(cold_proxies)) # (p \in HotKeys(hot_proxies))
  /\ call.op = "status" => call.total = Len(proxies)

\* C4 (exclusive assignment): the assignment map never records the same proxy
\* for two distinct workers.
C4_ExclusiveAssignment ==
  \A w1, w2 \in DOMAIN assigned : w1 # w2 => assigned[w1] # assigned[w2]

\* C5 (cooldown): a proxy that is hot with timestamp t stays hot, is not in cold,
\* is not returned by get_proxy and is not counted by status/has_available as
\* long as the clock reads less than t + cooldown.
InCooldown == {p \in HotKeys(hot_proxies) : now' - HotSince(hot_proxies, p) < cooldown}

C6_AcquireFifo ==
  [][(CallStep("get_proxy") /\ call'.worker \notin DOMAIN assigned) =>
       LET w == call'.worker
           c == refresh_cooled_proxies(Pool, now).cold_proxies
       IN /\ SubSeq(c, 1, Len(cold_proxies)) = cold_proxies
          /\ (call'.ret = None) <=> (c = <<>>)
          /\ c = <<>> => (cold_proxies' = cold_proxies /\ assigned' = assigned)
          /\ c # <<>> =>
               /\ call'.ret = c[1]
               /\ cold_proxies' = SubSeq(c, 2, Len(c))
               /\ DOMAIN assigned' = DOMAIN assigned \cup {w}
               /\ assigned'[w] = c[1]
               /\ \A v \in DOMAIN assigned : assigned'[v] = assigned[v]]_vars

\* proxy 1 went hot and cooled: it re-entered behind 2, and 2 was handed out first
C6_Witness ==
  /\ call.op = "get_proxy"
  /\ call.ret = 2
  /\ proxies = <<1, 2>>
  /\ cold_proxies = <<1>>
  /\ hot_proxies = <<>>
  /\ DOMAIN assigned = {call.worker}

\* what mark_hot(p, w) does to the pool (first half of C7)
MarkHotEffect(p, w) ==
  /\ HotKeys(hot_proxies') = HotKeys(hot_proxies) \cup {p}
  /\ HotSince(hot_proxies', p) = now
  /\ \A q \in HotKeys(hot_proxies) \ {p} :
       HotSince(hot_proxies', q) = HotSince(hot_proxies, q)
  /\ cold_proxies' = SelectSeq(cold_proxies, LAMBDA x : x # p)
  /\ IF w \in DOMAIN assigned /\ assigned[w] = p
     THEN /\ DOMAIN assigned' = DOMAIN assigned \ {w}
          /\ \A v \in DOMAIN assigned' : assigned'[v] = assigned[v]
     ELSE assigned' = assigned

C8_LazyReconciliation ==
  [][/\ ReconcilingStep =>
          /\ \A i \in DOMAIN hot_proxies' : now' - hot_proxies'[i].timestamp < cooldown
          /\ \A p \in HotKeys(hot_proxies) \ HotKeys(hot_proxies') :
               /\ now - HotSince(hot_proxies, p) >= cooldown
               /\ p \in Range(cold_proxies') \/ call'.ret = p
     /\ ~ReconcilingStep => HotKeys(hot_proxies) \subseteq HotKeys(hot_proxies')
     /\ CallStep("has_available") =>
          /\ call'.avail <=> Len(cold_proxies') > 0
          /\ call'.avail <=>
               \/ cold_proxies # <<>>
               \/ \E i \in DOMAIN hot_proxies : now - hot_proxies[i].timestamp >= cooldown]_vars

\* has_available found the pool whole again after proxies had been hot: the
\* cooled proxies are back in cold, in another order than the initial one
C8_Witness ==
  /\ call.op = "has_available"
  /\ call.avail
  /\ hot_proxies = <<>>
  /\ Len(cold_proxies) = Len(proxies)
  /\ cold_proxies # proxies

\* C9 (chunk coverage): divide_links returns exactly num_workers chunks whose
\* concatenation in chunk order is the input list, also when there are more
\* workers than links.
C9_ChunkCoverage ==
  dl_pc = "done" => (Len(chunks) = num_workers /\ Concat(chunks) = links)

\* more workers than links
C9_Witness == dl_pc = "done" /\ num_workers > Len(links) /\ Len(links) >= 2

\* C10 (chunk balance): the first N mod W chunks hold N div W + 1 links, the others
\* N div W, so two chunks differ by at most one link; 10 links for 3 workers
\* give chunks of 4, 3 and 3.
C10_ChunkBalance ==
  dl_pc = "done" =>
    LET N == Len(links)
        W == num_workers
    IN /\ DOMAIN chunks = 1..W
       /\ \A k \in 1..W :
            Len(chunks[k]) = (N \div W) + (IF k <= N % W THEN 1 ELSE 0)
       /\ \A j, k \in 1..W : Len(chunks[j]) - Len(chunks[k]) \in {-1, 0, 1}
       /\ (N = 10 /\ W = 3) => [k \in 1..3 |-> Len(chunks[k])] = <<4, 3, 3>>

\* 10 links have been divided among 3 workers
C10_Witness ==
  /\ dl_pc = "done"
  /\ Len(links) = 10
  /\ num_workers = 3
  /\ Len(chunks) = 3

\* ------------------------------------------------- properties of the run
RECURSIVE Sum(_, _)
Sum(f, S) == IF S = {} THEN 0
             ELSE LET x == CHOOSE x \in S : TRUE IN f[x] + Sum(f, S \ {x})

\* worker w takes a step
Steps(w) == wk'[w] # wk[w]

\* the scenario of C11: one worker, two proxies, max_errors = 1, and the only
\* failure so far is the worker's first network error
SwapScenario ==
  /\ use_proxies /\ num_workers = 1 /\ Len(proxies) = 2 /\ max_errors = 1
  /\ coord = "running" /\ faults = 1 /\ wk[0].local_errors = 1
  /\ wk[0].consecutive_errors = 1 \/ wk[0].local_swaps = 1

\* C11 (swap on threshold): in the scenario, once the worker has passed its
\* loop head after the error, the proxy it held is hot and it has swapped
\* once; once it has counted the swap the proxy-swap counter is 1; its next
\* get_proxy returns the other proxy.  In general: a worker that holds a
\* proxy and comes to its loop head with consecutive_errors >= max_errors
\* and items left calls mark_hot; a worker's swap count moves only in that
\* step, by one, and the step leaves the proxy hot; the counter moves only
\* in a worker's step that follows such a mark_hot, by one; so the counter
\* plus the swaps still to be counted equals the number of
\* threshold-triggered mark_hot calls.
C11_SwapOnThreshold ==
  [][/\ \A w \in Dispatched :
          /\ (wk'[w].local_swaps # wk[w].local_swaps) =>
               /\ wk[w].pc = "mark_hot" /\ wk'[w].pc = "count_swap"
               /\ wk'[w].local_swaps = wk[w].local_swaps + 1
               /\ wk[w].consecutive_errors >= max_errors
               /\ wk[w].current_proxy \in HotKeys(hot_proxies')
          /\ (Steps(w) /\ wk[w].pc = "loop" /\ use_proxies
                /\ wk[w].current_proxy # None
                /\ wk[w].consecutive_errors >= max_errors
                /\ wk[w].i < Len(ChunkOf(w)))
               => wk'[w].pc = "mark_hot"
          /\ (Steps(w) /\ wk[w].pc = "count_swap")
               => counters'.proxy_swaps = counters.proxy_swaps + 1
     /\ (counters'.proxy_swaps # counters.proxy_swaps /\ coord = "running")
          => \E w \in Dispatched : Steps(w) /\ wk[w].pc = "count_swap"
     /\ coord' = "running" =>
          counters'.proxy_swaps + Cardinality({w \in Dispatched : wk'[w].pc = "count_swap"})
            = Sum([w \in Workers |-> wk'[w].local_swaps], Dispatched)
     /\ SwapScenario' =>
          /\ wk'[0].pc \in {"count_neterr", "loop", "mark_hot"} \/ wk'[0].local_swaps = 1
          /\ wk'[0].pc = "count_swap" =>
               /\ wk'[0].current_proxy \in HotKeys(hot_proxies')
               /\ counters'.proxy_swaps = 0
          /\ wk'[0].pc \in {"get_proxy", "start", "fetch"} => counters'.proxy_swaps = 1
     /\ (SwapScenario /\ Steps(0) /\ wk[0].pc = "get_proxy") =>
          /\ wk'[0].current_proxy \in Proxies \ HotKeys(hot_proxies)
          /\ wk'[0].current_proxy \notin {None, proxies[1]}
    ]_vars

\* the scenario of C11 after the swap: proxy 1 is hot, the counter is 1 and
\* the worker holds proxy 2
C11_Witness ==
  /\ SwapScenario
  /\ wk[0].pc = "start"
  /\ wk[0].current_proxy = 2
  /\ 1 \in HotKeys(hot_proxies)
  /\ counters.proxy_swaps = 1

\* worker w has given up for lack of a proxy
Exhausted(w) ==
  /\ use_proxies
  /\ wk[w].pc \in {"cleanup", "done"}
  /\ wk[w].i < Len(ChunkOf(w))

\* C12 (proxy exhaustion): a worker makes at most 10 attempts in its retry
\* loop; with rotation enabled it is past the acquisition (opening a
\* session, fetching, saving) only with a proxy; a worker that stopped with
\* items left did so after 10 attempts without a proxy, has counted as
\* inserted or skipped no more items than it went past, and from then
\* on its index and its counts do not move; the step in which it gives up
\* changes no other worker (but wakes the other sleepers), no counter and
\* nothing stored.
C12_ProxyExhaustion ==
  [][/\ \A w \in Dispatched :
          /\ wk'[w].retry_count <= RetryBudget
          /\ wk'[w].pc = "get_proxy" => wk'[w].retry_count < RetryBudget
          /\ (use_proxies /\ wk'[w].pc \in {"start", "fetch", "save"})
               => wk'[w].current_proxy # None
          /\ Exhausted(w)' =>
               /\ wk'[w].retry_count = RetryBudget
               /\ wk'[w].current_proxy = None
               /\ ~wk'[w].driver
               /\ wk'[w].local_inserted + wk'[w].local_skipped <= wk'[w].i
          /\ Exhausted(w) =>
               /\ Exhausted(w)'
               /\ wk'[w].i = wk[w].i
               /\ wk'[w].local_inserted = wk[w].local_inserted
               /\ wk'[w].local_skipped = wk[w].local_skipped
               /\ wk'[w].local_errors = wk[w].local_errors
          /\ (~Exhausted(w) /\ Exhausted(w)') =>
               /\ counters' = counters /\ db' = db
               /\ \A v \in Dispatched \ {w} :
                     wk'[v] = IF v \in Sleeping THEN AfterSleep(wk[v]) ELSE wk[v]
    ]_vars

\* one worker gave up for lack of a proxy and another one has gone through
\* its whole chunk
C12_Witness ==
  \E w, v \in Dispatched :
     /\ Exhausted(w) /\ wk[w].pc = "done"
     /\ wk[v].pc = "done" /\ wk[v].i = Len(ChunkOf(v)) /\ wk[v].local_inserted > 0

\* worker w ends a call of save_business in this step
SaveStep(w) == wk[w].pc = "save" /\ Steps(w)

C14_WaitsForAll ==
  [][/\ coord' = "returned" => (Finished' = Dispatched /\ results' = counters')
     /\ \A w \in Dispatched :
          /\ (wk'[w].pc = "raised" /\ wk[w].pc # "raised") =>
               \A v \in Dispatched \ {w} : wk'[v] = wk[v]
          /\ (coord = "running" /\ w \notin Finished) =>
               (ENABLED WorkerStep(w) \/ w \in Sleeping)
     /\ (coord = "running" /\ Sleeping # {}) => ENABLED RunTick
     /\ (coord = "running" /\ Finished = Dispatched) => ENABLED Return
    ]_vars

\* run_workers has returned the counters of a run in which one worker raised
\* and another one went through its chunk afterwards
C14_Witness ==
  /\ coord = "returned"
  /\ wk[0].pc = "raised" /\ wk[0].i = 0
  /\ wk[1].pc = "done" /\ wk[1].local_inserted = 1
  /\ results.inserted = 1 /\ results.errors = 1

\* C20 (cancellation): after a KeyboardInterrupt in run_workers a worker goes
\* at most one item further than it was and does not begin another item, and
\* run_workers still returns the counters.
C20_Cancellation ==
  /\ coord \in {"interrupted", "aborted"} =>
       \A w \in Dispatched :
          /\ wk[w].i <= cancel_at[w] + 1
          /\ wk[w].i = cancel_at[w] + 1 =>
               wk[w].pc \in {"loop", "cleanup", "done", "raised"}
  /\ coord # "aborted"

\* -------------------------------------------- properties of the discovery
\* s without the later occurrences of its elements
RECURSIVE FirstOccurrences(_)
FirstOccurrences(s) ==
  IF s = <<>> THEN <<>>
  ELSE LET r == FirstOccurrences(SubSeq(s, 1, Len(s) - 1))
       IN IF s[Len(s)] \in Range(r) THEN r ELSE Append(r, s[Len(s)])

\* extract_links_paginated has returned a list
Extracted == mn.pc = "returned" /\ el.num_pages > 0 /\ el.page > el.num_pages

\* main.py has called extract_links_paginated to resume after page
\* start_page - 1, and the call has ended
ResumeCallEnded == mn.called /\ mn.start_page > 1 /\ mn.pc # "extract"

\* C15 (discovery deduplication): the list extract_links_paginated returns
\* holds every identifier the pages list exactly once, in the order of
\* first appearance.
C15_NoDuplicateLinks == Extracted => mn.links = FirstOccurrences(Concat(pages))

\* C16 (resume): when a discovery resumed from a links file with
\* last_page = k and completed = false has ended, exactly the pages
\* k+1..total_pages have been fetched, in increasing order.
C16_ResumeFetchesRest ==
  (ResumeCallEnded /\ progress.exists /\ ~progress.completed) =>
     fetched = [j \in 1..(progress.total_pages - progress.last_page)
                  |-> progress.last_page + j]

\* C17 (discovery idempotence): when a discovery resumed from the links file
\* that a run over the same site left after page k has ended, its list is
\* the list of one uninterrupted run over all pages.
C17_ResumeEqualsFullRun ==
  (ResumeCallEnded /\ \E k \in 1..(Len(pages) - 1) : progress = ProgressAt(pages, k)) =>
     (~mn.links_none /\ mn.links = LinksThrough(pages, Len(pages)) /\ mn.pc # "TypeError")

\* C18 (per-page checkpointing): once extract_links_paginated has fetched
\* page p and before it fetches page p+1, the links file holds last_page = p,
\* the links accumulated through page p and completed = (p = num_pages).
C18_CheckpointPerPage ==
  (mn.pc \in {"extract", "returned", "KeyboardInterrupt"} /\ el.page > 1) =>
     progress = [exists |-> TRUE, links |-> el.all_links, last_page |-> el.page - 1,
                 total_pages |-> el.num_pages,
                 completed |-> (el.page - 1 = el.num_pages)]

\* C19 (terminal state): a run of run_scrape_mode or run_resume_mode that
\* finds a links file with completed = true and does not delete it does not
\* call extract_links_paginated and fetches no page, and if it goes on to
\* run_workers it does so with the stored list; the file changes only by
\* being deleted, and not when run_workers returns and the mode function
\* ends.
C19_CompletedIsTerminal ==
  [][/\ (mn.pc = "menu" /\ mn'.pc \notin {"menu", "extract"}
           /\ progress.exists /\ progress.completed) =>
          /\ progress' \in {progress, NoProgress}
          /\ progress' = progress =>
               /\ ~mn'.called
               /\ mn'.pc \in {"run_workers", "returned"}
               /\ fetched' = fetched
               /\ mn'.pc = "run_workers" => (~mn'.links_none /\ mn'.links = progress.links)
     /\ mn.pc = "run_workers" => progress' = progress
     /\ progress' # progress => (mn.pc = "menu" /\ progress' = NoProgress)
    ]_vars

\* "resume from last page" was chosen on a completed links file: run_workers
\* is reached with the stored list
C19_Witness ==
  /\ mn.pc = "run_workers"
  /\ mn.start_page > 1
  /\ progress.exists /\ progress.completed
  /\ mn.links = progress.links
  /\ ~mn.called /\ fetched = <<>>

\* ------------------------------------------ properties of the worker loop
\* the program points at which worker w is working on item i of its chunk:
\* from the call of extract_all_data to the end of the handler that follows
InItem == {"fetch", "save", "count_inserted", "count_skipped", "count_neterr",
           "count_err"}

\* the number of links in the chunks before the chunk of worker w
Offset(w) == Sum([k \in 0..(w - 1) |-> Len(ChunkOf(k))], 0..(w - 1))

\* the place in the whole list of the item worker w is working on
Position(w) == Offset(w) + wk[w].i + 1

\* C21 (session cleanup): a worker has at most one session open at any
\* instant, and a worker whose function has ended, by its return or by an
\* exception, has no session open.
C21_SessionCleanup ==
  \A w \in Workers :
    /\ wk[w].open <= 1
    /\ wk[w].pc \in {"done", "raised"} => wk[w].open = 0

\* a worker is working on an item: the item is one of its own chunk, at its
\* own place in the whole list, and the worker's one session is open
OwnItem(w) ==
  wk[w].pc \in InItem =>
    /\ wk[w].i < Len(ChunkOf(w))
    /\ Position(w) \in DOMAIN links
    /\ links[Position(w)] = CurrentUrl(w)
    /\ \A v \in Dispatched \ {w} : wk[v].pc \in InItem => Position(v) # Position(w)
    /\ wk[w].driver /\ wk[w].open = 1

\* C22 (sequential chunk): a worker's index never decreases and moves by one
\* at a time, only in the step that ends the handling of the item it was
\* working on (counted as inserted, as skipped or as an error); a worker
\* works on one item at a time, which is the item at its index in its own
\* chunk, a place of the list no other worker works on.
C22_SequentialChunk ==
  [][\A w \in Dispatched :
       /\ wk'[w].i \in {wk[w].i, wk[w].i + 1}
       /\ wk'[w].i = wk[w].i + 1 =>
            /\ wk[w].pc \in InItem \ {"fetch", "save"}
            /\ wk'[w].pc = "loop"
       /\ wk'[w].pc = "fetch" /\ wk[w].pc # "fetch" =>
            wk[w].pc \in {"loop", "start"}
       /\ OwnItem(w)']_vars

\* the second item of a chunk is fetched, the first one having been stored
C22_Witness ==
  /\ num_workers = 1 /\ Len(links) = 2 /\ coord = "running"
  /\ wk[0].i = 1 /\ wk[0].pc = "fetch" /\ wk[0].local_inserted = 1

\* C23 (transient failure with rotation): with a proxy pool, a network error
\* of the fetch adds one to the consecutive-error count and to the worker's
\* error count, the handler adds one to the errors counter, and neither
\* moves the index.  A worker that comes to its loop head with a session, an
\* item left and the count at max_errors closes the session and goes on to
\* mark its proxy hot, to count the swap and to ask the pool for a proxy; the
\* session it opens next has count 0 and fetches the item at the same index.
C23_TransientWithRotation ==
  [][use_proxies =>
       \A w \in Dispatched :
         LET s == wk[w]
             t == wk'[w]
         IN /\ s.pc = "fetch" /\ t.pc = "count_neterr" =>
                 /\ t.consecutive_errors = s.consecutive_errors + 1
                 /\ t.local_errors = s.local_errors + 1
                 /\ t.i = s.i /\ counters' = counters
            /\ s.pc = "count_neterr" /\ Steps(w) =>
                 /\ counters'.errors = counters.errors + 1
                 /\ t.i = s.i /\ t.consecutive_errors = s.consecutive_errors
            /\ s.pc = "loop" /\ s.driver /\ s.i < Len(ChunkOf(w))
                 /\ s.consecutive_errors >= max_errors /\ Steps(w) =>
                 /\ t.pc = "mark_hot" /\ ~t.driver /\ t.open = 0
                 /\ t.current_proxy = s.current_proxy /\ s.current_proxy # None
            /\ s.pc = "mark_hot" /\ Steps(w) =>
                 /\ s.current_proxy \in HotKeys(hot_proxies')
                 /\ s.current_proxy \notin Range(cold_proxies')
                 /\ w \notin DOMAIN assigned'
                 /\ t.pc = "count_swap"
            /\ s.pc = "count_swap" /\ Steps(w) =>
                 t.pc = "get_proxy" /\ t.retry_count = 0
            /\ s.pc = "get_proxy" /\ Steps(w) =>
                 \/ t.pc = "start" /\ t.current_proxy # None
                      /\ t.current_proxy \notin HotKeys(hot_proxies')
                 \/ t.pc = "sleep" /\ t.current_proxy = None
            /\ s.pc = "start" /\ t.pc = "fetch" =>
                 t.driver /\ t.open = 1 /\ t.consecutive_errors = 0
            /\ s.pc \in {"mark_hot", "count_swap", "get_proxy", "sleep", "start"} =>
                 t.i = s.i /\ t.pc # "save"]_vars

\* after two network errors with max_errors = 2 the worker has swapped and
\* fetches the same item again under a new session
C23_Witness ==
  /\ use_proxies /\ max_errors = 2 /\ coord = "running"
  /\ wk[0].pc = "fetch" /\ wk[0].i = 0 /\ wk[0].driver
  /\ wk[0].local_swaps = 1 /\ counters.errors = 2 /\ counters.proxy_swaps = 1

\* the worker left its loop because get_proxy returned no proxy ten times
GaveUpWaiting(w) ==
  /\ wk[w].pc \in {"cleanup", "done"}
  /\ wk[w].retry_count = RetryBudget /\ wk[w].current_proxy = None

\* C24 (no cap on the retries of an item): on a site whose fetch fails with a
\* network error every time, a worker with a proxy pool never moves past its
\* first item, however often it has failed: it leaves the loop only if the
\* pool gave it no proxy within the retry budget; otherwise it has swapped
\* once for every max_errors failures and can take its next step, so the
\* chunk is never completed.
C24_RetriesWithoutCap ==
  \A w \in Dispatched :
    coord = "running" /\ ChunkOf(w) # <<>> =>
      /\ wk[w].i = 0
      /\ wk[w].pc \in {"cleanup", "done"} => GaveUpWaiting(w)
      /\ wk[w].pc = "fetch" =>
           wk[w].local_errors = wk[w].local_swaps * max_errors + wk[w].consecutive_errors
      /\ ~GaveUpWaiting(w) /\ wk[w].local_errors < MaxRetries =>
           ENABLED (RetryStep(w) \/ RunTick)

\* with max_errors = 1 the worker has failed and swapped MaxRetries times and
\* is fetching its first item once more
C24_Witness ==
  /\ coord = "running" /\ max_errors = 1 /\ num_workers = 1
  /\ wk[0].pc = "fetch" /\ wk[0].i = 0
  /\ wk[0].local_swaps = MaxRetries /\ counters.proxy_swaps = MaxRetries
  /\ counters.errors = MaxRetries

\* C25 (transient failure without rotation): without a proxy pool, a network
\* error of the fetch adds one to the consecutive-error count and to the
\* error counts and keeps the session; while the count is below max_errors
\* the index stays and the same item is fetched again on the same session;
\* when the count is max_errors the handler resets it to 0 and moves the
\* index by one, with nothing stored and nothing counted as inserted or
\* skipped.  A fetch is only issued with the count below max_errors, so an
\* item fails at most max_errors times.
C25_TransientWithoutRotation ==
  [][~use_proxies =>
       \A w \in Dispatched :
         LET s == wk[w]
             t == wk'[w]
         IN /\ s.pc = "fetch" /\ t.pc = "count_neterr" =>
                 /\ t.consecutive_errors = s.consecutive_errors + 1
                 /\ t.local_errors = s.local_errors + 1
                 /\ t.i = s.i /\ counters' = counters
                 /\ t.driver /\ t.open = 1
            /\ s.pc = "count_neterr" /\ t.pc = "loop" =>
                 /\ counters' = [counters EXCEPT !.errors = @ + 1]
                 /\ db' = db
                 /\ t.driver /\ t.open = 1
                 /\ IF s.consecutive_errors >= max_errors
                      THEN t.consecutive_errors = 0 /\ t.i = s.i + 1
                      ELSE t.consecutive_errors = s.consecutive_errors /\ t.i = s.i
            /\ s.pc = "loop" /\ s.driver /\ s.i < Len(ChunkOf(w)) /\ Steps(w) =>
                 t.pc = "fetch" /\ t.driver /\ t.open = 1 /\ t.i = s.i
            /\ t.consecutive_errors <= max_errors
            /\ t.pc = "fetch" => t.consecutive_errors < max_errors]_vars

\* with max_errors = 2 the first item failed twice and was given up: the
\* worker is at the second item, nothing is stored
C25_Witness ==
  /\ ~use_proxies /\ max_errors = 2 /\ num_workers = 1 /\ coord = "running"
  /\ wk[0].i = 1 /\ wk[0].pc = "fetch" /\ wk[0].consecutive_errors = 0
  /\ wk[0].open = 1 /\ counters.errors = 2 /\ db = {}
  /\ counters.inserted = 0 /\ counters.skipped = 0

\* C26 (unexpected failure): an exception of the fetch that is not a network
\* error adds one to the worker's error count, and its handler adds one to
\* the errors counter and to the index and nothing else; the consecutive-
\* error count, the session, the worker's proxy and the pool are left as
\* they were, with or without a proxy pool; the index never comes back to
\* the item.
C26_UnexpectedFailure ==
  [][\A w \in Dispatched :
       LET s == wk[w]
           t == wk'[w]
       IN /\ s.pc = "fetch" /\ t.pc = "count_err" =>
               /\ t = [s EXCEPT !.pc = "count_err", !.local_errors = @ + 1]
               /\ counters' = counters
               /\ <<cold_proxies, hot_proxies, assigned>>' =
                    <<cold_proxies, hot_proxies, assigned>>
          /\ s.pc = "count_err" /\ t.pc = "loop" =>
               /\ t = [s EXCEPT !.pc = "loop", !.i = @ + 1]
               /\ counters' = [counters EXCEPT !.errors = @ + 1]
               /\ <<cold_proxies, hot_proxies, assigned>>' =
                    <<cold_proxies, hot_proxies, assigned>>
               /\ t.driver /\ t.open = 1
               /\ use_proxies => t.current_proxy # None
                                   /\ t.consecutive_errors < max_errors
          /\ t.i >= s.i]_vars

\* with a proxy pool, the first item failed unexpectedly and the second one
\* is fetched on the same session, with no swap
C26_Witness ==
  /\ use_proxies /\ num_workers = 1 /\ coord = "running"
  /\ wk[0].i = 1 /\ wk[0].pc = "fetch" /\ wk[0].open = 1
  /\ wk[0].local_errors = 1 /\ wk[0].consecutive_errors = 0
  /\ wk[0].local_swaps = 0 /\ counters.errors = 1 /\ faults = 1

\* C27 (success): the save that follows a fetch counts the record as
\* inserted when it newly stored it and as skipped when it did not, never as
\* both; the step that follows adds one to that one counter, resets the
\* consecutive-error count to 0 and moves the index by one; the errors and
\* the proxy-swap counts are left as they were.
C27_Success ==
  [][\A w \in Dispatched :
       LET s == wk[w]
           t == wk'[w]
           stored == db' # db
       IN /\ s.pc = "save" /\ Steps(w) =>
               /\ stored => CurrentUrl(w) \notin db /\ db' = db \cup {CurrentUrl(w)}
               /\ t = [s EXCEPT
                         !.pc = IF stored THEN "count_inserted" ELSE "count_skipped",
                         !.local_inserted = IF stored THEN @ + 1 ELSE @,
                         !.local_skipped = IF stored THEN @ ELSE @ + 1]
               /\ counters' = counters
          /\ s.pc \in {"count_inserted", "count_skipped"} /\ Steps(w) =>
               /\ counters' = IF s.pc = "count_inserted"
                                THEN [counters EXCEPT !.inserted = @ + 1]
                                ELSE [counters EXCEPT !.skipped = @ + 1]
               /\ t = [s EXCEPT !.pc = "loop", !.i = @ + 1, !.consecutive_errors = 0]
               /\ db' = db]_vars

\* without a proxy pool and with max_errors = 2, the first item failed once
\* and was then stored: the count is back to 0
C27_Witness ==
  /\ ~use_proxies /\ max_errors = 2 /\ num_workers = 1 /\ coord = "running"
  /\ wk[0].i = 1 /\ wk[0].pc = "loop" /\ wk[0].consecutive_errors = 0
  /\ counters.errors = 1 /\ counters.inserted = 1 /\ counters.skipped = 0
  /\ counters.proxy_swaps = 0

\* what C28 and its amended form share: with a proxy pool, a failed start
\* leaves the proxy hot, out of the cold list and unassigned, and the worker
\* without proxy and without session; the index and the counters are left
\* as they were; the worker's next step asks the pool again; a fetch or a
\* save is only made with an open session.
StartFailureEffect(w) ==
  LET s == wk[w]
      t == wk'[w]
  IN /\ s.pc = "start" /\ t.pc = "loop" =>
          /\ s.current_proxy \in HotKeys(hot_proxies')
          /\ s.current_proxy \notin Range(cold_proxies')
          /\ w \notin DOMAIN assigned'
          /\ t = [s EXCEPT !.pc = "loop", !.current_proxy = None,
                           !.failed_proxy = s.current_proxy]
          /\ ~t.driver /\ t.open = 0
          /\ counters' = counters
     /\ s.pc = "loop" /\ s.failed_proxy # None /\ Steps(w) =>
          /\ t = [s EXCEPT !.pc = "get_proxy", !.retry_count = 0]
          /\ counters' = counters
     /\ t.pc \in {"fetch", "save"} => t.driver /\ t.open = 1

\* C28 as stated (start failure): StartFailureEffect, and the proxy the
\* worker acquires after the failed start is a different one.
C28_StartFailureDifferentProxy ==
  [][use_proxies =>
       \A w \in Dispatched :
         /\ StartFailureEffect(w)
         /\ wk[w].pc = "get_proxy" /\ wk[w].failed_proxy # None
              /\ wk'[w].current_proxy # None =>
              wk'[w].current_proxy # wk[w].failed_proxy]_vars

\* C28 amended (start failure): StartFailureEffect, and the proxy the worker
\* acquires after the failed start is not hot when it gets it: it is a
\* different one, or the same one after its cooldown has elapsed.
C28_StartFailureColdProxy ==
  [][use_proxies =>
       \A w \in Dispatched :
         /\ StartFailureEffect(w)
         /\ wk[w].pc = "get_proxy" /\ wk[w].failed_proxy # None
              /\ wk'[w].current_proxy # None =>
              /\ wk'[w].current_proxy \notin HotKeys(hot_proxies')
              /\ assigned'[w] = wk'[w].current_proxy
              /\ wk'[w].current_proxy = wk[w].failed_proxy
                   /\ wk[w].failed_proxy \in HotKeys(hot_proxies) =>
                   now - HotSince(hot_proxies, wk[w].failed_proxy) >= cooldown
              /\ wk'[w].i = wk[w].i]_vars

\* with two proxies, the start with the first one failed and the worker
\* holds the second one, the first one being hot
C28_Witness ==
  /\ use_proxies /\ num_workers = 1 /\ Len(proxies) = 2 /\ coord = "running"
  /\ wk[0].pc = "start" /\ wk[0].current_proxy = 2 /\ wk[0].failed_proxy = None
  /\ HotKeys(hot_proxies) = {1} /\ faults = 1
  /\ wk[0].i = 0 /\ counters = ZeroCounters /\ wk[0].local_swaps = 0

\* the proxies a get_proxy call made now can hand out: the cold ones and the
\* hot ones whose cooldown has elapsed
ColdNow ==
  Range(cold_proxies)
    \cup {p \in HotKeys(hot_proxies) : now - HotSince(hot_proxies, p) >= cooldown}

\* C29 (end of the loop): a worker comes to the code after its loop only
\* from the loop head with its chunk exhausted, or, with a proxy pool, from
\* the sleep that follows its tenth get_proxy without a proxy; with items
\* left the loop head never ends the loop.  In the waiting loop a get_proxy
\* call made while some proxy is cold or has cooled down returns such a
\* proxy, and the worker opens a session and fetches the item at the same
\* index; a call made while none is returns nothing and the worker sleeps,
\* and tries again while fewer than ten calls were made.
C29_LoopEnd ==
  [][\A w \in Dispatched :
       LET s == wk[w]
           t == wk'[w]
       IN /\ t.pc = "cleanup" /\ s.pc # "cleanup" =>
               \/ s.pc = "loop" /\ s.i >= Len(ChunkOf(w))
               \/ /\ use_proxies /\ s.pc = "sleep"
                  /\ t.retry_count = RetryBudget /\ t.current_proxy = None
          /\ s.pc = "loop" /\ s.i < Len(ChunkOf(w)) /\ Steps(w) =>
               t.pc \in {"mark_hot", "get_proxy", "start", "fetch"}
          /\ s.pc = "get_proxy" /\ Steps(w) =>
               IF ColdNow # {}
                 THEN t.pc = "start" /\ t.current_proxy \in ColdNow /\ t.i = s.i
                      /\ t.retry_count = s.retry_count
                 ELSE t.pc = "sleep" /\ t.current_proxy = None /\ t.i = s.i
          /\ s.pc = "sleep" /\ Steps(w) =>
               /\ t.retry_count = s.retry_count + 1 /\ t.i = s.i
               /\ t.retry_count < RetryBudget => t.pc = "get_proxy"
          /\ s.pc = "start" /\ Steps(w) =>
               t.i = s.i /\ t.pc \in {"fetch", "loop"}]_vars

\* with one proxy, the worker swapped, slept twice until the proxy had
\* cooled down, got it again and fetches the same item
C29_Witness ==
  /\ use_proxies /\ num_workers = 1 /\ Len(proxies) = 1 /\ coord = "running"
  /\ wk[0].pc = "fetch" /\ wk[0].i = 0 /\ wk[0].retry_count = 2
  /\ wk[0].local_swaps = 1 /\ wk[0].current_proxy = 1 /\ wk[0].open = 1

\* C30 (bounds of the consecutive-error count): the count of every worker is
\* between 0 and max_errors; with a proxy pool a worker that is about to
\* fetch has its count below max_errors and its session open.
C30_ErrorCountBounds ==
  \A w \in Workers :
    /\ wk[w].consecutive_errors \in 0..max_errors
    /\ use_proxies /\ wk[w].pc = "fetch" =>
         /\ wk[w].consecutive_errors < max_errors
         /\ wk[w].driver /\ wk[w].open = 1

\* with a proxy pool and max_errors = 2 the count has reached max_errors and
\* the worker is about to mark its proxy hot
C30_Witness ==
  /\ use_proxies /\ max_errors = 2 /\ coord = "running"
  /\ \E w \in Dispatched :
       /\ wk[w].consecutive_errors = max_errors /\ wk[w].pc = "mark_hot"
       /\ ~wk[w].driver /\ wk[w].current_proxy # None

\* C31 (retry allowance of an item): without a proxy pool, a worker that
\* moves to the next item takes no consecutive-error count with it, so that
\* every item can fail max_errors times before it is given up.
C31_FullAllowance ==
  [][~use_proxies =>
       \A w \in Dispatched :
         wk'[w].i # wk[w].i => wk'[w].consecutive_errors = 0]_vars

\* C32 (termination without rotation): without a proxy pool every worker
\* that was started comes to the end of its function, whatever the outcomes
\* of its fetches and of its session starts.
C32_WorkersTerminate == <>(coord # "start" /\ Finished = Dispatched)

\* the sum over the started workers of one of their local counts
LocalSum(field) == Sum([w \in Workers |-> wk[w][field]], Dispatched)

\* the started workers that have changed a local count and are about to add
\* one to the shared counter for it
AboutToCount(pcs) == Cardinality({w \in Dispatched : wk[w].pc \in pcs})

\* the items worker w has moved past without a save that was counted
Abandoned(w) == wk[w].i - wk[w].local_inserted - wk[w].local_skipped

\* C33 (aggregate counters): at every instant of every interleaving each
\* shared counter is the sum of the workers' local counts, less the updates
\* that workers are about to make; inserted + skipped never exceeds the
\* number of input links; the counters run_workers returns are the sums of
\* the local counts; and when every worker has exhausted its chunk, the
\* indexes add up to the number of input links, every item a worker moved
\* past being one it counted as inserted or skipped or one it abandoned
\* after an error.
C33_CountersAddUp ==
  /\ counters.inserted + AboutToCount({"count_inserted"}) = LocalSum("local_inserted")
  /\ counters.skipped + AboutToCount({"count_skipped"}) = LocalSum("local_skipped")
  /\ counters.errors + AboutToCount({"count_neterr", "count_err"})
       = LocalSum("local_errors")
  /\ counters.proxy_swaps + AboutToCount({"count_swap"}) = LocalSum("local_swaps")
  /\ counters.inserted + counters.skipped <= Len(links)
  /\ LocalSum("local_inserted") + LocalSum("local_skipped") <= Len(links)
  /\ coord = "returned" =>
       /\ results = [inserted |-> LocalSum("local_inserted"),
                     skipped |-> LocalSum("local_skipped"),
                     errors |-> LocalSum("local_errors"),
                     proxy_swaps |-> LocalSum("local_swaps")]
       /\ (\A w \in Dispatched : wk[w].pc = "done" /\ wk[w].i = Len(ChunkOf(w))) =>
            /\ LocalSum("i") = Len(links)
            /\ \A w \in Dispatched : Abandoned(w) \in 0..wk[w].local_errors
            /\ results.inserted + results.skipped
                 + Sum([w \in Workers |-> Abandoned(w)], Dispatched) = Len(links)

\* two workers were given the same link: one stored it, the other one's
\* save was a duplicate, and both counts are in the returned counters
C33_Witness ==
  /\ coord = "returned" /\ num_workers = 2 /\ links = <<1, 1>>
  /\ results.inserted = 1 /\ results.skipped = 1 /\ results.errors = 0
  /\ wk[0].local_inserted + wk[0].local_skipped = 1
  /\ wk[1].local_inserted + wk[1].local_skipped = 1


\* the worker's step from s to t is one in which it blocks: it ends a
\* time.sleep(30), it fetches an item, or it opens a session
Blocking(s, t) ==
  /\ s.pc \in {"sleep", "fetch", "start"}
  /\ [t EXCEPT !.holds = s.holds] # s

\* worker w waits for a lock that another worker holds
Waits(w) ==
  /\ LockOf(w) # "none"
  /\ LockOf(w) \notin wk[w].holds
  /\ ~Free(LockOf(w))

\* C34: no worker ever holds two of the three locks at the same time, no
\* worker holds one while it sleeps, fetches or opens a session, and the
\* workers cannot deadlock on the locks: at most one worker holds a lock,
\* and whenever a worker waits for a lock, the worker that holds it can run
\* on and release it.
C34_LockDiscipline ==
  /\ [](\A w \in Workers :
          /\ Cardinality(wk[w].holds) <= 1
          /\ \A v \in Workers \ {w} : wk[w].holds \cap wk[v].holds = {}
          /\ Waits(w) =>
               \E v \in Workers \ {w} :
                 /\ LockOf(w) \in wk[v].holds
                 /\ ENABLED (Statement(v) \/ Exit(v)))
  /\ [][\A w \in Workers : Blocking(wk[w], wk'[w]) => wk[w].holds = {}]_vars

\* one worker is inside the with block of the shared counters and the
\* other one waits at its own update of the counters for the lock
C34_Witness ==
  \E w, v \in Workers :
    /\ w # v
    /\ wk[w].pc \in {"count_inserted", "count_skipped", "count_neterr", "count_err"}
    /\ wk[w].holds = {"counters"}
    /\ wk[v].pc \in {"count_swap", "count_inserted", "count_skipped"}
    /\ Waits(v)

====
